---------------------------- MODULE Spec2Model ----------------------------
(***************************************************************************)
(* Model of iam_compact_t31_scenario_metadata:                             *)
(*   criteria_eval.py  - the criterion_eval_return context manager (a      *)
(*                       scoped replacement of the process-global          *)
(*                       format_value_series hook) and the three           *)
(*                       get_*_criterion_values evaluators;                *)
(*   process_vars.py   - add_missing_aggregates;                           *)
(*   criteria_def.py   - the make_*_criterion factories and registries;    *)
(*   add_metadata_notebook.py - the pipeline.                              *)
(*                                                                         *)
(* Specifications:                                                         *)
(*   Spec        - the life cycle of criterion_eval_return scopes whose    *)
(*                 steps interleave (nested and concurrent use);           *)
(*   SpecHook    - new_format_value_series as a function of its input and  *)
(*                 of the closure variables keep_regions/unit/keep_name;   *)
(*   SpecEval    - the evaluators applied to a criterion and a dataset;    *)
(*   SpecAgg     - add_missing_aggregates applied once and twice;          *)
(*   SpecFactory - the factories;                                          *)
(*   SpecNotebook - the cells of the notebook run in their order.          *)
(***************************************************************************)
EXTENDS Integers, Sequences, FiniteSets, TLC

(***************************************************************************)
(* Python values that can be passed as keep_regions / unit / keep_name.    *)
(* A value is a record [t |-> type name, v |-> its repr]; both fields are  *)
(* strings so that any two values can be compared.                         *)
(***************************************************************************)
PyTrue == [t |-> "bool", v |-> "True"]
PyFalse == [t |-> "bool", v |-> "False"]
PyNone == [t |-> "NoneType", v |-> "None"]
PyInt0 == [t |-> "int", v |-> "0"]
PyInt1 == [t |-> "int", v |-> "1"]
PyStr(s) == [t |-> "str", v |-> s]

\* isinstance(x, str)
IsStr(x) == x.t = "str"

\* bool is a subclass of int: True == 1 and False == 0 compare equal.
IsNumeric(x) == x.t \in {"bool", "int"}

NumOf(x) == IF x.v \in {"True", "1"} THEN 1 ELSE 0

\* Python's x == y on these values.
PyEq(x, y) ==
    IF IsNumeric(x) /\ IsNumeric(y) THEN NumOf(x) = NumOf(y)
    ELSE x.t = y.t /\ x.v = y.v

(***************************************************************************)
(* pandas.Series with a MultiIndex.  levels is the ordered list of index   *)
(* level names, rows the ordered list of entries; each entry carries its   *)
(* index values (a function from level name to label) and its value.       *)
(* A value that is not a pandas.Series has isSeries = FALSE.               *)
(***************************************************************************)
NoneName == "<None>"

NotASeries == [isSeries |-> FALSE, name |-> NoneName, levels |-> <<>>, rows |-> <<>>]

\* The levels of the Series a criterion builds: the criterion's name is the
\* label of the variable level.
RawLevels == <<"model", "scenario", "region", "variable", "unit">>

LevelNames == {"model", "scenario", "region", "variable", "unit"}

\* The index entry of one row of such a Series.
IdxOf(m, sc, r, v, u) ==
    [l \in LevelNames |->
        CASE l = "model" -> m [] l = "scenario" -> sc [] l = "region" -> r
          [] l = "variable" -> v [] OTHER -> u]

MkSeries(name, levels, rows) ==
    [isSeries |-> TRUE, name |-> name, levels |-> levels, rows |-> rows]

HasLevel(s, level) == \E i \in DOMAIN s.levels : s.levels[i] = level

\* pandas.Series.droplevel(level): the level leaves the index, the entries stay.
droplevel(s, level) ==
    [s EXCEPT
        !.levels = SelectSeq(@, LAMBDA l : l # level),
        !.rows = [i \in DOMAIN @ |->
                     [idx |-> [l \in (DOMAIN @[i].idx) \ {level} |-> @[i].idx[l]],
                      value |-> @[i].value]]]

\* reset_index('unit', drop=False); frame['unit'] = u;
\* frame.set_index('unit', append=True)[frame.columns[0]]:
\* the unit level is re-appended as the last level with the label u on every
\* entry; the value column of an unnamed Series is called 0.
relabel_unit(s, u) ==
    [s EXCEPT
        !.name = IF @ = NoneName THEN "0" ELSE @,
        !.levels = Append(SelectSeq(@, LAMBDA l : l # "unit"), "unit"),
        !.rows = [i \in DOMAIN @ |->
                     [idx |-> [l \in DOMAIN @[i].idx |->
                                  IF l = "unit" THEN u ELSE @[i].idx[l]],
                      value |-> @[i].value]]]

\* The outcome of a call: a returned Series, or the exception it raised.
Returned(s) == [err |-> "none", series |-> s]
Raised(e) == [err |-> e, series |-> NotASeries]

\* pathways_ensemble_analysis' own format_value_series: drops the region and
\* unit levels and clears the name.
original_format_value_series(series) ==
    Returned([droplevel(droplevel(series, "region"), "unit") EXCEPT !.name = NoneName])

\* Lines 144-149.
step_regions(series, keep_regions) ==
    IF PyEq(keep_regions, PyFalse) THEN Returned(droplevel(series, "region"))
    ELSE IF ~PyEq(keep_regions, PyTrue) THEN Raised("ValueError")
    ELSE Returned(series)

\* Lines 150-161.
step_unit(series, unit) ==
    IF PyEq(unit, PyFalse) THEN Returned(droplevel(series, "unit"))
    ELSE IF IsStr(unit) THEN Returned(relabel_unit(series, unit.v))
    ELSE IF ~PyEq(unit, PyTrue) THEN Raised("ValueError")
    ELSE Returned(series)

\* Lines 162-169.
step_name(series, orig_name, keep_name) ==
    IF ~PyEq(keep_name, PyFalse) THEN Returned([series EXCEPT !.name = NoneName])
    ELSE IF PyEq(keep_name, PyTrue) THEN Returned([series EXCEPT !.name = orig_name])
    ELSE Raised("ValueError")

\* The replacement hook, a closure over keep_regions, unit and keep_name.
new_format_value_series(series, keep_regions, unit, keep_name) ==
    IF ~series.isSeries THEN Raised("TypeError")
    ELSE LET r1 == step_regions(series, keep_regions) IN
         IF r1.err # "none" THEN r1
         ELSE LET r2 == step_unit(r1.series, unit) IN
              IF r2.err # "none" THEN r2
              ELSE step_name(r2.series, series.name, keep_name)

(***************************************************************************)
(* Bounded inputs of the hook.                                             *)
(***************************************************************************)
MaxSeriesRows == 2

Models == {"m1"}
Scenarios == {"s1", "s2"}
Regions == {"World"}
Units == {"EJ/yr", "Mt"}
Values == {1, 2}

RawIdx == {IdxOf(m, sc, r, "crit A", u) :
               <<m, sc, r, u>> \in Models \X Scenarios \X Regions \X Units}

RawRows == [idx : RawIdx, value : Values]

SeqsUpTo(S, n) == UNION {[1..k -> S] : k \in 0..n}

RawSeriesSet ==
    {MkSeries(nm, RawLevels, rs) :
        <<nm, rs>> \in {"value", NoneName} \X SeqsUpTo(RawRows, MaxSeriesRows)}

KeepRegionsArgs == {PyTrue, PyFalse, PyNone, PyInt1}
UnitArgs == {PyTrue, PyFalse, PyStr("%"), PyNone, PyInt0, PyInt1}
KeepNameArgs == {PyTrue, PyFalse, PyNone, PyInt1}

ArgsOf(kr, u, kn) == [keep_regions |-> kr, unit |-> u, keep_name |-> kn]

(***************************************************************************)
(* criterion_eval_return scopes.  Each scope is one use of the context     *)
(* manager by a logical evaluation; the steps of different scopes          *)
(* interleave freely, which covers nested use as well as unserialized      *)
(* concurrent use.  The hook is the module attribute                       *)
(* pathways_ensemble_analysis.criteria.base.format_value_series: 0 is the  *)
(* library's own function, s > 0 the closure created by scope s.           *)
(***************************************************************************)
NumScopes == 2

ScopeIds == 1..NumScopes

Original == 0

\* The argument combinations the scopes are opened with: the one used for
\* change and share criteria, the one used for cumulative criteria, and one
\* that drops regions and units.
ScopeArgs == {ArgsOf(PyTrue, PyStr("%"), PyTrue),
              ArgsOf(PyTrue, PyTrue, PyTrue),
              ArgsOf(PyFalse, PyFalse, PyTrue)}

\* What the criterion hands to the hook at the end of get_values.
BodySeries ==
    {MkSeries("value", RawLevels,
              <<[idx |-> IdxOf("m1", "s1", "World", "crit A", "Mt"), value |-> 1]>>),
     NotASeries}

(***************************************************************************)
(* criteria_def.py: the factories.  A criterion object is the record of    *)
(* the keyword arguments its constructor was called with; str|None         *)
(* arguments are Python values.                                            *)
(***************************************************************************)
reference_year == 2020

\* list(range(a, b))
py_range(a, b) == [i \in 1..(b - a) |-> a + i - 1]

make_pct_change_criterion(ref_year, target_year, variable, name, region) ==
    [class |-> "ChangeOverTimeCriterion",
     criterion_name |-> name,
     year |-> target_year,
     variable |-> variable,
     reference_year |-> ref_year,
     region |-> region]

make_share_criterion(year, variable_component, variable_total, name, region) ==
    [class |-> "ShareCriterion",
     criterion_name |-> name,
     year |-> year,
     variable_component |-> variable_component,
     variable_total |-> variable_total,
     region |-> region]

\* Mutant: the end year left out of the range.
make_cumulative_criterion_exclusive(start_year, end_year, variable, name, unit, cumulative_unit, region) ==
    [class |-> "AggregateCriterion",
     criterion_name |-> name,
     years |-> py_range(start_year, end_year),
     variable |-> variable,
     aggregation_function |-> "sum",
     unit |-> unit,
     region |-> region,
     cumulative_unit |-> cumulative_unit]

make_cumulative_criterion(start_year, end_year, variable, name, unit, cumulative_unit, region) ==
    [class |-> "AggregateCriterion",
     criterion_name |-> name,
     years |-> py_range(start_year, end_year + 1),
     variable |-> variable,
     aggregation_function |-> "sum",
     unit |-> unit,
     region |-> region,
     cumulative_unit |-> cumulative_unit]

\* Bounded factory inputs.
MaxSpan == 2

FactoryYears == (reference_year - 1)..(reference_year + MaxSpan)
FactoryVariables == {"Emissions|CO2", "Final Energy|Industry"}
FactoryNames == {"crit A", "crit B"}
FactoryRegions == {"*", "World"}
FactoryUnits == {PyNone, PyStr("Gt CO2 / yr")}
FactoryCumUnits == {PyNone, PyStr("Gt CO2")}

FactoryInputs ==
    [kind : {"change", "share", "cumulative"},
     y1 : FactoryYears, y2 : FactoryYears,
     v1 : FactoryVariables, v2 : FactoryVariables,
     name : FactoryNames, region : FactoryRegions,
     unit : FactoryUnits, cumulative_unit : FactoryCumUnits]

NoCriterion == [class |-> "none"]

(***************************************************************************)
(* process_vars.py: add_missing_aggregates.  A pyam.IamDataFrame is the    *)
(* set of its rows; a row is keyed by (model, scenario, region, variable,  *)
(* unit, year) and carries one value.  The index of an IamDataFrame is the *)
(* set of its (model, scenario) pairs.                                     *)
(***************************************************************************)
AggVar == "Primary Energy|Non-Biomass Renewables"
Hydro == "Primary Energy|Hydro"
Geothermal == "Primary Energy|Non-Biomass Renewables|Geothermal"

FrameVariables == {AggVar, Hydro, Geothermal}
FrameYears == {2030, 2050}

\* The variables one level below v in the "|" hierarchy.
ChildrenOf(v) == IF v = AggVar THEN {Geothermal} ELSE {}

PairOf(r) == <<r.model, r.scenario>>

KeyOf(r) == <<r.model, r.scenario, r.region, r.variable, r.unit, r.year>>

UniqueKeys(df) == \A r1, r2 \in df : KeyOf(r1) = KeyOf(r2) => r1 = r2

index(df) == {PairOf(r) : r \in df}

\* iamdf.filter(variable=v)
filter_variable(df, v) == {r \in df : r.variable = v}

\* iamdf.filter(index=idx, keep=keep)
filter_index(df, idx, keep) == {r \in df : (PairOf(r) \in idx) = keep}

RECURSIVE SumValues(_)
SumValues(rows) ==
    IF rows = {} THEN 0
    ELSE LET r == CHOOSE x \in rows : TRUE IN r.value + SumValues(rows \ {r})

\* component_vars: None, or a list of variable names.
NoComponents == [given |-> FALSE, names |-> {}]
ComponentList(names) == [given |-> TRUE, names |-> names]

\* pyam's choice of components: the list given, or, without one (None or an
\* empty list), the variables of the data one level below the aggregate.
components_of(df, variable, component_vars) ==
    IF component_vars.given /\ component_vars.names # {} THEN component_vars.names
    ELSE ChildrenOf(variable) \cap {r.variable : r \in df}

\* The rows df.aggregate(variable, components) computes: the component rows
\* renamed to the aggregate and summed over each group of equal remaining
\* index values (model, scenario, region, unit, year).
aggregate(df, variable, component_vars) ==
    LET comps == components_of(df, variable, component_vars)
        parts == {r \in df : r.variable \in comps}
        renamed(r) == [r EXCEPT !.variable = variable, !.value = 0]
    IN {[g EXCEPT !.value = SumValues({r \in parts : renamed(r) = g})] :
            g \in {renamed(r) : r \in parts}}

\* pyam.concat
concat(a, b) == a \cup b

\* Mutant: the aggregate computed without append=True, the components lost.
add_missing_aggregates_no_append(iamdf, agg_var, component_vars) ==
    LET has_agg_var_index == index(filter_variable(iamdf, agg_var))
        iamdf_agg_present == filter_index(iamdf, has_agg_var_index, TRUE)
        iamdf_agg_missing == filter_index(iamdf, has_agg_var_index, FALSE)
    IN concat(iamdf_agg_present, aggregate(iamdf_agg_missing, agg_var, component_vars))

\* Mutant: the aggregate computed on the whole dataset, also where reported.
add_missing_aggregates_everywhere(iamdf, agg_var, component_vars) ==
    concat(iamdf, aggregate(iamdf, agg_var, component_vars))

\* Mutant: the component sum added onto the aggregate of every pair, reported
\* or not.
add_missing_aggregates_accumulate(iamdf, agg_var, component_vars) ==
    LET withAgg == ComponentList(components_of(iamdf, agg_var, component_vars) \cup {agg_var})
    IN concat(iamdf \ filter_variable(iamdf, agg_var), aggregate(iamdf, agg_var, withAgg))

\* Mutant: no aggregation at all.
add_missing_aggregates_identity(iamdf, agg_var, component_vars) == iamdf

\* Lines 61-84.
add_missing_aggregates(iamdf, agg_var, component_vars) ==
    LET has_agg_var_index == index(filter_variable(iamdf, agg_var))
        iamdf_agg_present == filter_index(iamdf, has_agg_var_index, TRUE)
        iamdf_agg_missing == filter_index(iamdf, has_agg_var_index, FALSE)
        appended == iamdf_agg_missing
                        \cup aggregate(iamdf_agg_missing, agg_var, component_vars)
    IN concat(iamdf_agg_present, appended)

\* Bounded datasets.
MaxRows == 3

FrameRows ==
    [model : Models, scenario : Scenarios, region : Regions, variable : FrameVariables,
     unit : Units, year : FrameYears, value : Values]

ComponentArgs == {NoComponents, ComponentList({Hydro}), ComponentList({Geothermal}),
                  ComponentList({Hydro, Geothermal})}

VARIABLES
    h_series,   \* the value handed to the hook
    h_cfg,      \* the closure variables of the hook
    h_out,      \* what the call returned or raised
    h_pc,       \* "ready" before the call, "called" after it
    format_value_series,  \* the process-global hook
    sc_pc,      \* per scope: idle, saved, in, extracted, raised, done
    sc_args,    \* per scope: keep_regions, unit, keep_name
    sc_saved,   \* per scope: original_format_value_series (line 136)
    sc_ran,     \* per scope: the hook that formatted its extraction (-1: none yet)
    sc_err,     \* per scope: the exception its body raised ("none" if none)
    stack,      \* history: the scopes entered and not yet exited, oldest first
    nested,     \* history: entries were atomic and exits in LIFO order so far
    overlapped, \* history: some scope was entered while another was open
    f_in,       \* the arguments of a factory call
    f_out,      \* the criterion it returned
    f_pc,       \* "ready" before the call, "made" after it
    iamdf,      \* the dataset given to add_missing_aggregates
    component_vars,  \* its component_vars argument
    iamdf_out,  \* the dataset it returned
    iamdf_out2, \* the dataset a second call on iamdf_out returned
    agg_pc,     \* "loading", "once" after the first call, "twice" after the second
    keep_name,  \* the module attribute criteria_eval.keep_name (line 44)
    ev_iamdf,   \* the dataset a criterion is evaluated on
    ev_criterion,  \* the criterion
    ev_raw,     \* the Series the criterion handed to the hook
    ev_out,     \* what the evaluator returned or raised
    ev_pc,      \* "loading" before the evaluator is called, "evaluated" after it
    heap,       \* the IamDataFrame objects of the notebook: object name -> rows
    nb_iamdf,   \* the object the notebook's name iamdf is bound to
    iamdf_original,  \* the object the name iamdf_original is bound to
    nb_before,  \* history: the rows of the dataset when add_missing_aggregates was called
    registries, \* change_criteria, share_criteria, cumulative_criteria
    change_values,      \* the results, in the order of the registry
    share_values,
    cumulative_values,
    all_values, \* the concatenated Series
    all_values_df,   \* the reshaped table
    iamdf_with_meta, \* what is written to the workbook
    nb_pc       \* the notebook cell to run next, or how the run ended

hookVars == <<h_series, h_cfg, h_out, h_pc>>
shimVars == <<format_value_series, sc_pc, sc_args, sc_saved, sc_ran, sc_err,
              stack, nested, overlapped>>

facVars == <<f_in, f_out, f_pc>>

aggVars == <<iamdf, component_vars, iamdf_out, iamdf_out2, agg_pc>>

evalVars == <<keep_name, ev_iamdf, ev_criterion, ev_raw, ev_out, ev_pc>>

nbVars == <<heap, nb_iamdf, iamdf_original, nb_before, registries, change_values,
            share_values, cumulative_values, all_values, all_values_df,
            iamdf_with_meta, nb_pc>>

vars == <<hookVars, shimVars, facVars, aggVars, evalVars, nbVars>>

HookIdle ==
    /\ h_series = NotASeries
    /\ h_cfg = ArgsOf(PyFalse, PyFalse, PyFalse)
    /\ h_out = Raised("pending")
    /\ h_pc = "off"

ShimIdle ==
    /\ format_value_series = Original
    /\ sc_pc = [s \in ScopeIds |-> "idle"]
    /\ sc_args = [s \in ScopeIds |-> ArgsOf(PyFalse, PyFalse, PyFalse)]
    /\ sc_saved = [s \in ScopeIds |-> Original]
    /\ sc_ran = [s \in ScopeIds |-> -1]
    /\ sc_err = [s \in ScopeIds |-> "none"]
    /\ stack = <<>>
    /\ nested = TRUE
    /\ overlapped = FALSE

FacIdle ==
    /\ f_in = [kind |-> "none"]
    /\ f_out = NoCriterion
    /\ f_pc = "off"

AggIdle ==
    /\ iamdf = {}
    /\ component_vars = NoComponents
    /\ iamdf_out = {}
    /\ iamdf_out2 = {}
    /\ agg_pc = "off"

EvalIdle ==
    /\ keep_name = PyTrue
    /\ ev_iamdf = {}
    /\ ev_criterion = NoCriterion
    /\ ev_raw = NotASeries
    /\ ev_out = Raised("pending")
    /\ ev_pc = "off"

NbIdle ==
    /\ heap = <<>>
    /\ nb_iamdf = "none"
    /\ iamdf_original = "none"
    /\ nb_before = {}
    /\ registries = <<>>
    /\ change_values = <<>>
    /\ share_values = <<>>
    /\ cumulative_values = <<>>
    /\ all_values = NotASeries
    /\ all_values_df = [err |-> "pending"]
    /\ iamdf_with_meta = [written |-> FALSE]
    /\ nb_pc = "off"

(***************************************************************************)
(* SpecHook: one call of the replacement hook.                             *)
(***************************************************************************)
HookInit ==
    /\ h_series \in RawSeriesSet \cup {NotASeries}
    /\ h_cfg \in [keep_regions : KeepRegionsArgs, unit : UnitArgs, keep_name : KeepNameArgs]
    /\ h_out = Raised("pending")
    /\ h_pc = "ready"
    /\ ShimIdle /\ FacIdle /\ AggIdle /\ EvalIdle /\ NbIdle

CallHook ==
    /\ h_pc = "ready"
    /\ h_out' = new_format_value_series(h_series, h_cfg.keep_regions, h_cfg.unit, h_cfg.keep_name)
    /\ h_pc' = "called"
    /\ UNCHANGED <<h_series, h_cfg, shimVars, facVars, aggVars, evalVars, nbVars>>

NextHook == CallHook

SpecHook == HookInit /\ [][NextHook]_vars

(***************************************************************************)
(* Spec: the life cycle of the scopes.                                     *)
(***************************************************************************)
Open(s) == sc_pc[s] \in {"saved", "in", "extracted", "raised"}

OthersMidEntry(s) == \E o \in ScopeIds \ {s} : sc_pc[o] = "saved"

Top == IF stack = <<>> THEN Original ELSE stack[Len(stack)]

\* Calling whatever function the module attribute holds at this moment.
call_hook(h, series) ==
    IF h = Original THEN original_format_value_series(series)
    ELSE new_format_value_series(series, sc_args[h].keep_regions, sc_args[h].unit,
                                 sc_args[h].keep_name)

\* Line 136: the generator starts and reads the attribute.
Save(s) ==
    /\ sc_pc[s] = "idle"
    /\ \E a \in ScopeArgs : sc_args' = [sc_args EXCEPT ![s] = a]
    /\ sc_saved' = [sc_saved EXCEPT ![s] = format_value_series]
    /\ sc_pc' = [sc_pc EXCEPT ![s] = "saved"]
    /\ overlapped' = (overlapped \/ \E o \in ScopeIds \ {s} : Open(o))
    /\ nested' = (nested /\ ~OthersMidEntry(s))
    /\ UNCHANGED <<format_value_series, sc_ran, sc_err, stack, hookVars, facVars, aggVars, evalVars, nbVars>>

\* Line 172, up to the yield.
Install(s) ==
    /\ sc_pc[s] = "saved"
    /\ format_value_series' = s
    /\ sc_pc' = [sc_pc EXCEPT ![s] = "in"]
    /\ stack' = Append(stack, s)
    /\ nested' = (nested /\ ~OthersMidEntry(s))
    /\ UNCHANGED <<sc_args, sc_saved, sc_ran, sc_err, overlapped, hookVars, facVars, aggVars, evalVars, nbVars>>

\* The body: criterion.get_values ends by calling format_value_series.
Extract(s) ==
    /\ sc_pc[s] = "in"
    /\ \E raw \in BodySeries :
          LET out == call_hook(format_value_series, raw) IN
          /\ sc_err' = [sc_err EXCEPT ![s] = out.err]
          /\ sc_pc' = [sc_pc EXCEPT ![s] = IF out.err = "none" THEN "extracted" ELSE "raised"]
    /\ sc_ran' = [sc_ran EXCEPT ![s] = format_value_series]
    /\ UNCHANGED <<format_value_series, sc_args, sc_saved, stack, nested, overlapped, hookVars, facVars, aggVars, evalVars, nbVars>>

\* The body raises before it reaches the hook (a failing lookup in the data).
BodyRaise(s) ==
    /\ sc_pc[s] = "in"
    /\ sc_err' = [sc_err EXCEPT ![s] = "BodyError"]
    /\ sc_pc' = [sc_pc EXCEPT ![s] = "raised"]
    /\ UNCHANGED <<format_value_series, sc_args, sc_saved, sc_ran, stack, nested,
                   overlapped, hookVars, facVars, aggVars, evalVars, nbVars>>

\* Mutants of restored: a restoration that is skipped when an exception passes
\* through (no try/finally), and one that is skipped always.
restored_unless_raised(saved, current, err) == IF err = "none" THEN saved ELSE current

restored_never(saved, current, err) == current

\* Lines 173-176: what the attribute is set to when the body is left with
\* the exception err ("none" on a normal return).
restored(saved, current, err) == saved

RemoveFromStack(s) == SelectSeq(stack, LAMBDA x : x # s)

\* The scope is left: normally, or by an exception passing through.
Exit(s) ==
    /\ sc_pc[s] \in {"in", "extracted", "raised"}
    /\ format_value_series' = restored(sc_saved[s], format_value_series, sc_err[s])
    /\ sc_pc' = [sc_pc EXCEPT ![s] = "done"]
    /\ stack' = RemoveFromStack(s)
    /\ nested' = (nested /\ Top = s /\ ~OthersMidEntry(s))
    /\ UNCHANGED <<sc_args, sc_saved, sc_ran, sc_err, overlapped, hookVars, facVars, aggVars, evalVars, nbVars>>

Init == ShimIdle /\ HookIdle /\ FacIdle /\ AggIdle /\ EvalIdle /\ NbIdle

Next ==
    \E s \in ScopeIds :
        \/ Save(s)
        \/ Install(s)
        \/ Extract(s)
        \/ BodyRaise(s)
        \/ Exit(s)

Spec == Init /\ [][Next]_vars

(***************************************************************************)
(* Properties of the hook (SpecHook).                                      *)
(***************************************************************************)
IsBoolArg(x) == x \in {PyTrue, PyFalse}

SameEntries(a, b) ==
    /\ Len(a.rows) = Len(b.rows)
    /\ \A i \in DOMAIN a.rows : a.rows[i].value = b.rows[i].value

UnitPolicyApplied(in, out, unit) ==
    /\ out.err = "none"
    /\ SameEntries(in, out.series)
    /\ unit = PyFalse => ~HasLevel(out.series, "unit")
    /\ unit = PyTrue =>
          /\ HasLevel(out.series, "unit")
          /\ \A i \in DOMAIN in.rows : out.series.rows[i].idx["unit"] = in.rows[i].idx["unit"]
    /\ IsStr(unit) =>
          /\ HasLevel(out.series, "unit")
          /\ \A i \in DOMAIN in.rows : out.series.rows[i].idx["unit"] = unit.v

HookCalledWithValidFlags ==
    /\ h_pc = "called"
    /\ h_series.isSeries
    /\ IsBoolArg(h_cfg.keep_regions)
    /\ IsBoolArg(h_cfg.keep_name)
    /\ h_cfg.unit \in {PyTrue, PyFalse} \/ IsStr(h_cfg.unit)

\* C10: every call of the hook with boolean keep_regions and keep_name and a
\* unit of False, True or a string returns a Series with the entries of the
\* input, whose unit level is absent (False), unchanged (True) or equal to the
\* string on every entry.
C10_UnitTriState ==
    HookCalledWithValidFlags => UnitPolicyApplied(h_series, h_out, h_cfg.unit)

\* The same statement for the calls made with keep_name = True only.
UnitTriStateWhenNameCleared ==
    (HookCalledWithValidFlags /\ h_cfg.keep_name = PyTrue)
        => UnitPolicyApplied(h_series, h_out, h_cfg.unit)

HookCalledWithSeries == h_pc = "called" /\ h_series.isSeries

\* C11: every call of the hook on a Series with a unit that is neither a
\* boolean nor a string (None, 0, 1) raises ValueError and returns no Series.
C11_NonBoolUnitRejected ==
    (HookCalledWithSeries /\ ~IsBoolArg(h_cfg.unit) /\ ~IsStr(h_cfg.unit))
        => h_out = Raised("ValueError")

\* The same statement for the values of unit that compare equal to neither
\* False nor True.
UnitRejectedUnlessEqualToBool ==
    (HookCalledWithSeries /\ ~IsNumeric(h_cfg.unit) /\ ~IsStr(h_cfg.unit))
        => h_out = Raised("ValueError")

\* C12: a call of the hook on a Series with a keep_regions or a keep_name
\* that is not True or False raises ValueError, and a call on a value that is
\* not a Series raises TypeError.
C12_InvalidFlagsRejected ==
    h_pc = "called" =>
        /\ ~h_series.isSeries => h_out = Raised("TypeError")
        /\ (h_series.isSeries /\ (~IsBoolArg(h_cfg.keep_regions) \/ ~IsBoolArg(h_cfg.keep_name)))
              => h_out = Raised("ValueError")

\* The parts of it that hold: the type check, and the rejection of a
\* keep_regions that compares equal to neither False nor True.
TypeAndRegionsRejected ==
    h_pc = "called" =>
        /\ ~h_series.isSeries => h_out = Raised("TypeError")
        /\ (h_series.isSeries /\ ~IsNumeric(h_cfg.keep_regions))
              => h_out = Raised("ValueError")

\* C13: a call of the hook with valid keep_regions and unit and a boolean
\* keep_name returns a Series; its name is the name of the Series handed to
\* the hook when keep_name is True and None when keep_name is False.
C13_KeepNameControlsName ==
    HookCalledWithValidFlags =>
        /\ h_out.err = "none"
        /\ h_cfg.keep_name = PyTrue => h_out.series.name = h_series.name
        /\ h_cfg.keep_name = PyFalse => h_out.series.name = NoneName

\* What the code does instead: True clears the name and False raises.
KeepNameInverted ==
    HookCalledWithValidFlags =>
        /\ h_cfg.keep_name = PyTrue =>
              (h_out.err = "none" /\ h_out.series.name = NoneName)
        /\ h_cfg.keep_name = PyFalse => h_out = Raised("ValueError")

(***************************************************************************)
(* Properties of the scopes (Spec).                                        *)
(***************************************************************************)
ExitRestores ==
    \A s \in ScopeIds :
        (Open(s) /\ sc_pc'[s] = "done") => format_value_series' = sc_saved[s]

\* C1: whenever a scope is left, by a normal return or by an exception of the
\* body or of the hook, the hook is the function the scope found when it was
\* entered; hence while scopes are properly nested the hook is the override of
\* the innermost open scope, and the library's function when none is open.
C1_ScopedRestore ==
    [][ExitRestores]_vars /\ [](nested => format_value_series = Top)

\* An inner scope left by an exception of the hook, inside a scope still open.
C1_Witness ==
    /\ nested
    /\ sc_pc[2] = "done" /\ sc_saved[2] = 1 /\ sc_err[2] = "TypeError"
    /\ sc_pc[1] = "in"
    /\ format_value_series = 1

AllClosed == \A s \in ScopeIds : sc_pc[s] \in {"idle", "done"}

RanUnderOwnOverride == \A s \in ScopeIds : sc_ran[s] \in {-1, s}

\* C2: as long as no scope is entered while another one is open, every
\* extraction is formatted by its own scope's override and the hook is the
\* library's function whenever no scope is open; with overlapping scopes a
\* state without these properties is reachable (C2_Witness).
C2_SerializedSafe ==
    ~overlapped => (RanUnderOwnOverride /\ (AllClosed => format_value_series = Original))

\* A enters, B enters, A exits, B extracts and exits: B's extraction ran
\* without any override and the hook is left at A's override.
C2_Witness ==
    /\ overlapped
    /\ \A s \in ScopeIds : sc_pc[s] = "done"
    /\ format_value_series # Original
    /\ \E s \in ScopeIds : sc_ran[s] = Original

(***************************************************************************)
(* SpecFactory: one call of a factory.                                     *)
(***************************************************************************)
FactoryInit ==
    /\ f_in \in FactoryInputs
    /\ f_out = NoCriterion
    /\ f_pc = "ready"
    /\ ShimIdle /\ HookIdle /\ AggIdle /\ EvalIdle /\ NbIdle

MakeChange ==
    /\ f_pc = "ready" /\ f_in.kind = "change"
    /\ f_out' = make_pct_change_criterion(f_in.y1, f_in.y2, f_in.v1, f_in.name, f_in.region)
    /\ f_pc' = "made"
    /\ UNCHANGED <<f_in, hookVars, shimVars, aggVars, evalVars, nbVars>>

MakeShare ==
    /\ f_pc = "ready" /\ f_in.kind = "share"
    /\ f_out' = make_share_criterion(f_in.y1, f_in.v1, f_in.v2, f_in.name, f_in.region)
    /\ f_pc' = "made"
    /\ UNCHANGED <<f_in, hookVars, shimVars, aggVars, evalVars, nbVars>>

MakeCumulative ==
    /\ f_pc = "ready" /\ f_in.kind = "cumulative"
    /\ f_out' = make_cumulative_criterion(f_in.y1, f_in.y2, f_in.v1, f_in.name, f_in.unit,
                                          f_in.cumulative_unit, f_in.region)
    /\ f_pc' = "made"
    /\ UNCHANGED <<f_in, hookVars, shimVars, aggVars, evalVars, nbVars>>

NextFactory == MakeChange \/ MakeShare \/ MakeCumulative

SpecFactory == FactoryInit /\ [][NextFactory]_vars

(***************************************************************************)
(* Properties of the factories (SpecFactory).                              *)
(***************************************************************************)
\* The list holds exactly the integers a..b in increasing order.
IsInclusiveRange(l, a, b) ==
    /\ Len(l) = (IF b >= a THEN b - a + 1 ELSE 0)
    /\ \A i \in DOMAIN l : l[i] = a + i - 1
    /\ \A y \in a..b : \E i \in DOMAIN l : l[i] = y

ChangeMatches ==
    /\ f_out.class = "ChangeOverTimeCriterion"
    /\ f_out.criterion_name = f_in.name /\ f_out.variable = f_in.v1
    /\ f_out.reference_year = f_in.y1 /\ f_out.year = f_in.y2
    /\ f_out.region = f_in.region

ShareMatches ==
    /\ f_out.class = "ShareCriterion"
    /\ f_out.criterion_name = f_in.name /\ f_out.year = f_in.y1
    /\ f_out.variable_component = f_in.v1 /\ f_out.variable_total = f_in.v2
    /\ f_out.region = f_in.region

CumulativeMatches ==
    /\ f_out.class = "AggregateCriterion"
    /\ f_out.criterion_name = f_in.name /\ f_out.variable = f_in.v1
    /\ f_out.unit = f_in.unit /\ f_out.cumulative_unit = f_in.cumulative_unit
    /\ f_out.region = f_in.region
    /\ IsInclusiveRange(f_out.years, f_in.y1, f_in.y2)
    /\ f_in.y1 > f_in.y2 => f_out.years = <<>>

\* C9: every factory call returns a criterion whose parameters are the
\* arguments unchanged, except that make_cumulative_criterion stores the list
\* of all years from start_year to end_year inclusive, which is empty when
\* start_year > end_year.
C9_FactoryParameters ==
    f_pc = "made" =>
        CASE f_in.kind = "change" -> ChangeMatches
          [] f_in.kind = "share" -> ShareMatches
          [] OTHER -> CumulativeMatches

\* A cumulative criterion over several years, and one with start > end.
C9_Witness ==
    /\ f_pc = "made" /\ f_in.kind = "cumulative"
    /\ f_in.y1 = reference_year /\ f_in.y2 = reference_year + 2
    /\ f_out.years = <<2020, 2021, 2022>>

C9_WitnessEmpty ==
    /\ f_pc = "made" /\ f_in.kind = "cumulative"
    /\ f_in.y1 > f_in.y2 /\ f_out.years = <<>>

(***************************************************************************)
(* SpecAgg: add_missing_aggregates applied to a dataset, and applied again *)
(* to its own result with the same arguments.                              *)
(***************************************************************************)
AggInit ==
    /\ iamdf = {}
    /\ component_vars = NoComponents
    /\ iamdf_out = {}
    /\ iamdf_out2 = {}
    /\ agg_pc = "loading"
    /\ ShimIdle /\ HookIdle /\ FacIdle /\ EvalIdle /\ NbIdle

\* The dataset is read row by row; each key holds at most one value.
LoadRow ==
    /\ agg_pc = "loading"
    /\ Cardinality(iamdf) < MaxRows
    /\ \E r \in FrameRows :
          /\ \A x \in iamdf : KeyOf(x) # KeyOf(r)
          /\ iamdf' = iamdf \cup {r}
    /\ UNCHANGED <<component_vars, iamdf_out, iamdf_out2, agg_pc, hookVars, shimVars, facVars, evalVars, nbVars>>

FirstRun ==
    /\ agg_pc = "loading"
    /\ \E c \in ComponentArgs :
          /\ component_vars' = c
          /\ iamdf_out' = add_missing_aggregates(iamdf, AggVar, c)
    /\ agg_pc' = "once"
    /\ UNCHANGED <<iamdf, iamdf_out2, hookVars, shimVars, facVars, evalVars, nbVars>>

SecondRun ==
    /\ agg_pc = "once"
    /\ iamdf_out2' = add_missing_aggregates(iamdf_out, AggVar, component_vars)
    /\ agg_pc' = "twice"
    /\ UNCHANGED <<iamdf, component_vars, iamdf_out, hookVars, shimVars, facVars, evalVars, nbVars>>

NextAgg == LoadRow \/ FirstRun \/ SecondRun

SpecAgg == AggInit /\ [][NextAgg]_vars

(***************************************************************************)
(* Properties of add_missing_aggregates (SpecAgg).                         *)
(***************************************************************************)
AggDone == agg_pc \in {"once", "twice"}

\* The component variables of the call: the list, or the hierarchy children.
ListedComponents ==
    IF component_vars.given /\ component_vars.names # {} THEN component_vars.names
    ELSE ChildrenOf(AggVar)

ReportingPairs == index(filter_variable(iamdf, AggVar))

MissingPairs == index(iamdf) \ ReportingPairs

AggRowsOf(df, p) == {r \in df : PairOf(r) = p /\ r.variable = AggVar}

ComponentRowsAt(p, region, year) ==
    {r \in iamdf : /\ PairOf(r) = p /\ r.region = region /\ r.year = year
                   /\ r.variable \in ListedComponents}

ReportedKept == \A p \in ReportingPairs : AggRowsOf(iamdf_out, p) = AggRowsOf(iamdf, p)

\* C4 as stated: a pair without the aggregate gets, at every (region, year)
\* where it reports components, an aggregate row holding the sum of all its
\* component rows at that (region, year); reporting pairs keep their rows.
C4_SumPerRegionYear ==
    AggDone =>
        /\ ReportedKept
        /\ \A p \in MissingPairs : \A region \in Regions, year \in FrameYears :
              ComponentRowsAt(p, region, year) # {} =>
                  \E r \in AggRowsOf(iamdf_out, p) :
                      /\ r.region = region /\ r.year = year
                      /\ r.value = SumValues(ComponentRowsAt(p, region, year))

SumRow(p, region, unit, year) ==
    [model |-> p[1], scenario |-> p[2], region |-> region, variable |-> AggVar,
     unit |-> unit, year |-> year,
     value |-> SumValues({r \in ComponentRowsAt(p, region, year) : r.unit = unit})]

\* C4 amended: the sum is taken per (region, unit, year): a pair without the
\* aggregate gets exactly one aggregate row for every (region, unit, year)
\* at which it reports a component, holding the sum of its component rows with
\* that unit, and no other aggregate row; reporting pairs keep their rows.
C4_SumPerRegionUnitYear ==
    AggDone =>
        /\ ReportedKept
        /\ \A p \in MissingPairs :
              AggRowsOf(iamdf_out, p) =
                  {SumRow(p, region, unit, year) :
                      <<region, unit, year>> \in
                          {<<r.region, r.unit, r.year>> :
                              r \in UNION {ComponentRowsAt(p, rg, y) :
                                              <<rg, y>> \in Regions \X FrameYears}}}

\* One pair reports the aggregate, the other two components with the same
\* unit at one (region, year): its aggregate is their sum 1 + 2.
C4_Witness ==
    /\ AggDone
    /\ ReportingPairs # {}
    /\ \E p \in MissingPairs : \E r \in AggRowsOf(iamdf_out, p) :
          /\ r.value = 3
          /\ Cardinality({x \in ComponentRowsAt(p, r.region, r.year) : x.unit = r.unit}) = 2

OtherRows(df) == {r \in df : r.variable # AggVar}

\* C5: the rows of the other variables are the same in the output as in the
\* input, and every aggregate row of the input is in the output with its
\* value, no output row sharing its key with another value.
C5_OnlyAggregateRowsAdded ==
    AggDone =>
        /\ OtherRows(iamdf_out) = OtherRows(iamdf)
        /\ filter_variable(iamdf, AggVar) \subseteq iamdf_out
        /\ \A r \in filter_variable(iamdf, AggVar) :
              \A x \in iamdf_out : KeyOf(x) = KeyOf(r) => x = r

\* A run that added rows next to reported aggregate rows and other rows.
C5_Witness ==
    /\ AggDone
    /\ filter_variable(iamdf, AggVar) # {}
    /\ OtherRows(iamdf) # {}
    /\ iamdf_out # iamdf

\* C6: a second call with the same arguments on the result of the first
\* returns that result unchanged.
C6_Idempotent == agg_pc = "twice" => iamdf_out2 = iamdf_out

\* A second call after a first call that added aggregate rows.
C6_Witness ==
    /\ agg_pc = "twice"
    /\ iamdf_out # iamdf
    /\ ReportingPairs # {}

HasAggregate(df, p) == AggRowsOf(df, p) # {}

ReportsComponent(p) ==
    \E r \in iamdf : PairOf(r) = p /\ r.variable \in ListedComponents

\* C7 as stated: the output holds the aggregate for every pair of the input.
C7_AggregateForEveryPair ==
    AggDone => \A p \in index(iamdf) : HasAggregate(iamdf_out, p)

\* C7 amended: the output holds the aggregate for exactly the pairs of the
\* input that report the aggregate or at least one component variable.
C7_AggregateWhereComputable ==
    AggDone =>
        \A p \in index(iamdf) :
            HasAggregate(iamdf_out, p) <=> (p \in ReportingPairs \/ ReportsComponent(p))

\* A pair that reports only one of two listed components gets the aggregate.
C7_Witness ==
    /\ AggDone
    /\ component_vars = ComponentList({Hydro, Geothermal})
    /\ \E p \in MissingPairs :
          /\ HasAggregate(iamdf_out, p)
          /\ \A r \in iamdf : PairOf(r) = p => r.variable = Hydro

(***************************************************************************)
(* criteria_eval.py: the evaluators.  Values are exact fractions           *)
(* [num, den]; the criteria of pathways_ensemble_analysis are modelled by  *)
(* the Series they hand to format_value_series: one entry per (model,      *)
(* scenario, region, unit) of the matching rows, labelled with the         *)
(* criterion's name.                                                       *)
(***************************************************************************)
obs_year == 2030

Ratio(n, d) == [num |-> n, den |-> d]

RatEq(a, b) == a.num * b.den = b.num * a.den

\* values * 100.0
times(series, k) ==
    [series EXCEPT !.rows = [i \in DOMAIN @ |->
        [idx |-> @[i].idx, value |-> Ratio(@[i].value.num * k, @[i].value.den)]]]

RECURSIVE SeqOfSet(_)
SeqOfSet(S) ==
    IF S = {} THEN <<>>
    ELSE LET x == CHOOSE y \in S : TRUE IN <<x>> \o SeqOfSet(S \ {x})

GroupOf(r) == <<r.model, r.scenario, r.region, r.unit>>

InRegion(c, r) == c.region = "*" \/ r.region = c.region

ValueAt(rows, g, variable, year) ==
    (CHOOSE r \in rows : GroupOf(r) = g /\ r.variable = variable /\ r.year = year).value

HasValueAt(rows, g, variable, year) ==
    \E r \in rows : GroupOf(r) = g /\ r.variable = variable /\ r.year = year

\* Mutant: the variable level labelled "value" for every criterion.
SeriesOver_unlabelled(c, value) ==
    LET gs == SeqOfSet(DOMAIN value) IN
    MkSeries("value", RawLevels,
             [i \in DOMAIN gs |->
                 [idx |-> IdxOf(gs[i][1], gs[i][2], gs[i][3], "value", gs[i][4]),
                  value |-> value[gs[i]]]])

\* value is a function from the groups to their values.
SeriesOver(c, value) ==
    LET gs == SeqOfSet(DOMAIN value) IN
    MkSeries("value", RawLevels,
             [i \in DOMAIN gs |->
                 [idx |-> IdxOf(gs[i][1], gs[i][2], gs[i][3], c.criterion_name, gs[i][4]),
                  value |-> value[gs[i]]]])

\* ChangeOverTimeCriterion: (value in year - value in reference_year) / value
\* in reference_year.
ChangeOverTime_get_values(df, c) ==
    LET rows == {r \in df : r.variable = c.variable /\ InRegion(c, r)}
        groups == {g \in {GroupOf(r) : r \in rows} :
                      /\ HasValueAt(rows, g, c.variable, c.reference_year)
                      /\ HasValueAt(rows, g, c.variable, c.year)}
        change(g) == Ratio(ValueAt(rows, g, c.variable, c.year)
                              - ValueAt(rows, g, c.variable, c.reference_year),
                           ValueAt(rows, g, c.variable, c.reference_year))
    IN SeriesOver(c, [g \in groups |-> change(g)])

\* ShareCriterion: value of the component / value of the total in year.
Share_get_values(df, c) ==
    LET rows == {r \in df : r.year = c.year /\ InRegion(c, r)}
        groups == {g \in {GroupOf(r) : r \in rows} :
                      /\ HasValueAt(rows, g, c.variable_component, c.year)
                      /\ HasValueAt(rows, g, c.variable_total, c.year)}
        share(g) == Ratio(ValueAt(rows, g, c.variable_component, c.year),
                          ValueAt(rows, g, c.variable_total, c.year))
    IN SeriesOver(c, [g \in groups |-> share(g)])

InYears(c, year) == \E i \in DOMAIN c.years : c.years[i] = year

\* AggregateCriterion with pd.Series.sum: the sum over the years.  The rows
\* of the datasets used here are already in the criterion's unit.
Aggregate_get_values(df, c) ==
    LET rows == {r \in df : r.variable = c.variable /\ InRegion(c, r) /\ InYears(c, r.year)}
        total(g) == Ratio(SumValues({r \in rows : GroupOf(r) = g}), 1)
    IN SeriesOver(c, [g \in {GroupOf(r) : r \in rows} |-> total(g)])

\* Lines 53-59 and 68-74, after the criterion has built raw: the override of
\* the evaluator's own scope formats it, the result is scaled to percent.
percent_values(raw) ==
    LET out == new_format_value_series(raw, PyTrue, PyStr("%"), keep_name) IN
    IF out.err # "none" THEN out ELSE Returned(times(out.series, 100))

get_change_criterion_values(df, criterion) ==
    percent_values(ChangeOverTime_get_values(df, criterion))

get_share_criterion_values(df, criterion) ==
    percent_values(Share_get_values(df, criterion))

\* Lines 83-89.
get_cumulative_criterion_values(df, criterion) ==
    new_format_value_series(Aggregate_get_values(df, criterion), PyTrue, PyTrue, keep_name)

\* Bounded evaluation inputs.
MaxEvalRows == 5
CumSpan == 4

ChangeCriterion ==
    make_pct_change_criterion(reference_year, obs_year, "Emissions|CO2",
                              "Change in CO2 emissions in 2030 (% change rel to 2020)", "*")

ShareCriterion ==
    make_share_criterion(obs_year, "Final Energy|Industry|Electricity", "Final Energy|Industry",
                         "Electricity share in Final Energy, Industrial sector in 2030 (%)", "*")

CumulativeCriterion ==
    make_cumulative_criterion(reference_year, reference_year + CumSpan, "Emissions|CO2",
                              "Cumulative CO2 emissions (Gt CO2)",
                              PyStr("Gt CO2 / yr"), PyStr("Gt CO2"), "*")

EvalCriteria == {ChangeCriterion, ShareCriterion, CumulativeCriterion}

EvalRowsFor(c) ==
    CASE c.class = "ChangeOverTimeCriterion" ->
            [model : Models, scenario : Scenarios, region : Regions, variable : {c.variable},
             unit : {"Mt CO2/yr"}, year : {c.reference_year, c.year}, value : {100, 150}]
      [] c.class = "ShareCriterion" ->
            [model : Models, scenario : Scenarios, region : Regions,
             variable : {c.variable_component, c.variable_total},
             unit : {"EJ/yr"}, year : {c.year}, value : {30, 120}]
      [] OTHER ->
            [model : Models, scenario : Scenarios, region : Regions, variable : {c.variable},
             unit : {c.unit.v}, year : reference_year..(reference_year + CumSpan),
             value : {5, 7}]

(***************************************************************************)
(* SpecEval: one criterion evaluated on a dataset, the evaluations being   *)
(* serialized as the notebook does.                                        *)
(***************************************************************************)
EvalInit ==
    /\ keep_name = PyTrue
    /\ ev_criterion \in EvalCriteria
    /\ ev_iamdf = {}
    /\ ev_raw = NotASeries
    /\ ev_out = Raised("pending")
    /\ ev_pc = "loading"
    /\ ShimIdle /\ HookIdle /\ FacIdle /\ AggIdle /\ NbIdle

\* The module attribute keep_name is rebound by the caller (before the data
\* is loaded: the order of the two does not matter).
SetKeepName ==
    /\ ev_pc = "loading" /\ ev_iamdf = {}
    /\ keep_name = PyTrue
    /\ keep_name' = PyFalse
    /\ UNCHANGED <<ev_iamdf, ev_criterion, ev_raw, ev_out, ev_pc,
                   hookVars, shimVars, facVars, aggVars, nbVars>>

LoadEvalRow ==
    /\ ev_pc = "loading"
    /\ Cardinality(ev_iamdf) < MaxEvalRows
    /\ \E r \in EvalRowsFor(ev_criterion) :
          /\ \A x \in ev_iamdf : KeyOf(x) # KeyOf(r)
          /\ ev_iamdf' = ev_iamdf \cup {r}
    /\ UNCHANGED <<keep_name, ev_criterion, ev_raw, ev_out, ev_pc,
                   hookVars, shimVars, facVars, aggVars, nbVars>>

\* The scope is entered and left within the call: the hook is the library's
\* function before and after it.
Evaluated(raw, out) ==
    /\ format_value_series = Original
    /\ format_value_series' = restored(format_value_series, Original, out.err)
    /\ ev_raw' = raw
    /\ ev_out' = out
    /\ ev_pc' = "evaluated"
    /\ UNCHANGED <<keep_name, ev_iamdf, ev_criterion, sc_pc, sc_args, sc_saved, sc_ran,
                   sc_err, stack, nested, overlapped, hookVars, facVars, aggVars, nbVars>>

EvaluateChange ==
    /\ ev_pc = "loading" /\ ev_criterion.class = "ChangeOverTimeCriterion"
    /\ Evaluated(ChangeOverTime_get_values(ev_iamdf, ev_criterion),
                 get_change_criterion_values(ev_iamdf, ev_criterion))

EvaluateShare ==
    /\ ev_pc = "loading" /\ ev_criterion.class = "ShareCriterion"
    /\ Evaluated(Share_get_values(ev_iamdf, ev_criterion),
                 get_share_criterion_values(ev_iamdf, ev_criterion))

EvaluateCumulative ==
    /\ ev_pc = "loading" /\ ev_criterion.class = "AggregateCriterion"
    /\ Evaluated(Aggregate_get_values(ev_iamdf, ev_criterion),
                 get_cumulative_criterion_values(ev_iamdf, ev_criterion))

NextEval ==
    \/ SetKeepName
    \/ LoadEvalRow
    \/ EvaluateChange
    \/ EvaluateShare
    \/ EvaluateCumulative

SpecEval == EvalInit /\ [][NextEval]_vars

(***************************************************************************)
(* Properties of the evaluators (SpecEval).                                *)
(***************************************************************************)
PercentKind == ev_criterion.class \in {"ChangeOverTimeCriterion", "ShareCriterion"}

UnitLabels(series) == {series.rows[i].idx["unit"] : i \in DOMAIN series.rows}

PercentOfRaw ==
    /\ ev_out.err = "none"
    /\ HasLevel(ev_out.series, "region")
    /\ HasLevel(ev_out.series, "unit")
    /\ UnitLabels(ev_out.series) \subseteq {"%"}
    /\ Len(ev_out.series.rows) = Len(ev_raw.rows)
    /\ \A i \in DOMAIN ev_raw.rows :
          /\ RatEq(ev_out.series.rows[i].value, Ratio(100 * ev_raw.rows[i].value.num,
                                                      ev_raw.rows[i].value.den))
          /\ ev_out.series.rows[i].idx["region"] = ev_raw.rows[i].idx["region"]

\* C3: every evaluation of a change or share criterion, with the module's
\* keep_name True or False, returns a Series with the region level, a unit
\* level that is '%' on every entry, one entry per entry of the criterion's
\* raw output, each value 100 times the raw ratio.
C3_PercentOutput == (ev_pc = "evaluated" /\ PercentKind) => PercentOfRaw

\* The same statement for keep_name = True, the value the module ships with.
PercentOutputWhenNameCleared ==
    (ev_pc = "evaluated" /\ PercentKind /\ keep_name = PyTrue) => PercentOfRaw

\* 100 in 2020 and 150 in 2030 give 50 %; 30 of 120 gives 25 %.
ChangeExample ==
    /\ ev_pc = "evaluated" /\ ev_criterion = ChangeCriterion /\ keep_name = PyTrue
    /\ \E r1, r2 \in ev_iamdf :
          /\ GroupOf(r1) = GroupOf(r2)
          /\ r1.year = reference_year /\ r1.value = 100
          /\ r2.year = obs_year /\ r2.value = 150
          /\ \E i \in DOMAIN ev_out.series.rows :
                /\ ev_out.series.rows[i].idx["scenario"] = r1.scenario
                /\ RatEq(ev_out.series.rows[i].value, Ratio(50, 1))

ShareExample ==
    /\ ev_pc = "evaluated" /\ ev_criterion = ShareCriterion /\ keep_name = PyTrue
    /\ \E r1, r2 \in ev_iamdf :
          /\ GroupOf(r1) = GroupOf(r2)
          /\ r1.variable = ShareCriterion.variable_component /\ r1.value = 30
          /\ r2.variable = ShareCriterion.variable_total /\ r2.value = 120
          /\ \E i \in DOMAIN ev_out.series.rows :
                /\ ev_out.series.rows[i].idx["scenario"] = r1.scenario
                /\ RatEq(ev_out.series.rows[i].value, Ratio(25, 1))

YearlyRows(idx) ==
    {r \in ev_iamdf : /\ r.model = idx["model"] /\ r.scenario = idx["scenario"]
                      /\ r.region = idx["region"]
                      /\ r.variable = ev_criterion.variable
                      /\ InYears(ev_criterion, r.year)}

CumulativeSums ==
    /\ ev_out.err = "none"
    /\ \A i \in DOMAIN ev_out.series.rows :
          RatEq(ev_out.series.rows[i].value,
                Ratio(SumValues(YearlyRows(ev_out.series.rows[i].idx)), 1))

CumulativeCase ==
    /\ ev_pc = "evaluated" /\ ev_criterion.class = "AggregateCriterion"
    /\ keep_name = PyTrue

\* C8: a cumulative criterion evaluated through
\* get_cumulative_criterion_values yields the sum over the years per (model,
\* scenario, region), and the unit level holds the criterion's cumulative
\* unit on every entry.
C8_CumulativeUnit ==
    CumulativeCase =>
        /\ CumulativeSums
        /\ HasLevel(ev_out.series, "unit")
        /\ UnitLabels(ev_out.series) \subseteq {ev_criterion.cumulative_unit.v}

\* What the evaluator does: the sums carry the unit of the summed rows.
CumulativeKeepsDataUnit ==
    CumulativeCase =>
        /\ CumulativeSums
        /\ UnitLabels(ev_out.series) \subseteq {ev_criterion.unit.v}

\* 5, 5, 5, 5, 5 over 2020-2024 give 25.
CumulativeExample ==
    /\ CumulativeCase
    /\ \E sc \in Scenarios :
          /\ \A y \in reference_year..(reference_year + 4) :
                \E r \in ev_iamdf : r.scenario = sc /\ r.year = y /\ r.value = 5
          /\ \E i \in DOMAIN ev_out.series.rows :
                /\ ev_out.series.rows[i].idx["scenario"] = sc
                /\ RatEq(ev_out.series.rows[i].value, Ratio(25, 1))

(***************************************************************************)
(* add_metadata_notebook.py: the pipeline.  The IamDataFrames are objects  *)
(* of a heap, so that a name bound to an object sees what is later done to *)
(* that object.  The module attribute keep_name has the value the module   *)
(* ships with.                                                             *)
(***************************************************************************)
\* The objects: the one made at line 84, and the ones add_missing_aggregates
\* makes.
ObjectNames == {"loaded", "iamdf_agg_present", "iamdf_agg_missing", "iamdf_out"}

CO2 == "Emissions|CO2"

NbRegions == {"World", "R5ASIA"}

NbUnit(v) == IF v = CO2 THEN "Gt CO2 / yr" ELSE "EJ/yr"

NbYears(v) == IF v = CO2 THEN {reference_year, obs_year} ELSE {obs_year}

NbRows ==
    {r \in [model : Models, scenario : Scenarios, region : NbRegions,
            variable : {CO2, Hydro, AggVar}, unit : {"Gt CO2 / yr", "EJ/yr"},
            year : {reference_year, obs_year}, value : Values] :
        r.unit = NbUnit(r.variable) /\ r.year \in NbYears(r.variable)}

MaxNbRows == 3

\* The component_vars of lines 106-112.
NbComponents == ComponentList({Hydro})

Entry(key, criterion) == [key |-> key, criterion |-> criterion]

NbChange ==
    make_pct_change_criterion(reference_year, obs_year, CO2, "Change in CO2 emissions", "*")

NbShare == make_share_criterion(obs_year, Hydro, AggVar, "Hydro share", "*")

NbCumulative ==
    make_cumulative_criterion(reference_year, obs_year, CO2, "Cumulative CO2 emissions",
                              PyStr("Gt CO2 / yr"), PyStr("Gt CO2"), "*")

\* A cumulative criterion that has the name of the change criterion.
NbCumulativeSameName ==
    make_cumulative_criterion(reference_year, obs_year, CO2, "Change in CO2 emissions",
                              PyStr("Gt CO2 / yr"), PyStr("Gt CO2"), "*")

\* Registries are dicts: the keys of one registry are distinct.  The first
\* has distinct criterion names like the shipped ones, the second has one
\* name under two keys, the third one name in two kinds.
NbRegistries ==
    {[change |-> <<Entry("pct_change_co2", NbChange)>>,
      share |-> <<Entry("share_hydro", NbShare)>>,
      cumulative |-> <<Entry("cumulative_co2", NbCumulative)>>],
     [change |-> <<Entry("pct_change_co2", NbChange), Entry("pct_change_co2_b", NbChange)>>,
      share |-> <<Entry("share_hydro", NbShare)>>,
      cumulative |-> <<Entry("cumulative_co2", NbCumulative)>>],
     [change |-> <<Entry("pct_change_co2", NbChange)>>,
      share |-> <<Entry("share_hydro", NbShare)>>,
      cumulative |-> <<Entry("cumulative_co2", NbCumulativeSameName)>>]}

\* Mutant: the aggregate appended to the dataset that was passed in.
aggregate_target_input(input, agg_missing) == input

\* Lines 68-78: the object aggregate(..., append=True) is called on.
aggregate_target(input, agg_missing) == agg_missing

\* process_vars.py lines 61-84 on objects: filter and concat make new
\* objects, aggregate(append=True) changes the object it is called on.
add_missing_aggregates_objects(h, input, agg_var, comps) ==
    LET has_agg_var_index == index(filter_variable(h[input], agg_var))
        h1 == [h EXCEPT !["iamdf_agg_present"] = filter_index(h[input], has_agg_var_index, TRUE),
                        !["iamdf_agg_missing"] = filter_index(h[input], has_agg_var_index, FALSE)]
        target == aggregate_target(input, "iamdf_agg_missing")
        h2 == [h1 EXCEPT ![target] = @ \cup aggregate(h1["iamdf_agg_missing"], agg_var, comps)]
    IN [h2 EXCEPT !["iamdf_out"] = concat(h2["iamdf_agg_present"], h2["iamdf_agg_missing"])]

RECURSIVE ConcatRows(_)
ConcatRows(seriesSeq) ==
    IF seriesSeq = <<>> THEN <<>>
    ELSE Head(seriesSeq).rows \o ConcatRows(Tail(seriesSeq))

\* pd.concat of Series that have the same index levels: the entries one after
\* the other, none dropped; the result has no name unless all names agree.
pd_concat(seriesSeq) ==
    MkSeries(IF \A i \in DOMAIN seriesSeq : seriesSeq[i].name = seriesSeq[1].name
                 THEN seriesSeq[1].name ELSE NoneName,
             seriesSeq[1].levels, ConcatRows(seriesSeq))

\* Index.is_unique
is_unique(series) ==
    \A i, j \in DOMAIN series.rows : series.rows[i].idx = series.rows[j].idx => i = j

RECURSIVE SumLen(_)
SumLen(seriesSeq) ==
    IF seriesSeq = <<>> THEN 0 ELSE Len(Head(seriesSeq).rows) + SumLen(Tail(seriesSeq))

\* Mutant: the length assertion alone.
assertions_pass_length_only(seriesSeq, concatenated) ==
    SumLen(seriesSeq) = Len(concatenated.rows)

\* Lines 176-182.
assertions_pass(seriesSeq, concatenated) ==
    /\ SumLen(seriesSeq) = Len(concatenated.rows)
    /\ is_unique(concatenated)

NaN == Ratio(0, 0)

\* Series.unstack(level): a table with one row per remaining index entry and
\* one column per label of the level; ValueError when two entries have the
\* same index.
unstack(series, level) ==
    LET keys == {series.rows[i].idx : i \in DOMAIN series.rows}
        rowkey(k) == [l \in (DOMAIN k) \ {level} |-> k[l]]
        rowkeys == {rowkey(k) : k \in keys}
        columns == {k[level] : k \in keys}
        at(rk, c) == {i \in DOMAIN series.rows :
                         rowkey(series.rows[i].idx) = rk /\ series.rows[i].idx[level] = c}
    IN IF ~is_unique(series) THEN [err |-> "ValueError"]
       ELSE [err |-> "none",
             levels |-> SelectSeq(series.levels, LAMBDA l : l # level),
             index |-> rowkeys,
             columns |-> columns,
             cell |-> [rc \in rowkeys \X columns |->
                          IF at(rc[1], rc[2]) = {} THEN NaN
                          ELSE series.rows[CHOOSE i \in at(rc[1], rc[2]) : TRUE].value]]

\* Mutant: the region level dropped with the unit level.
reshape_by_pair(series) == unstack(droplevel(droplevel(series, "unit"), "region"), "variable")

\* Line 191.
reshape(series) == unstack(droplevel(series, "unit"), "variable")

SeriesOf(outcomes) == [i \in DOMAIN outcomes |-> outcomes[i].series]

AnyRaised(outcomes) == \E i \in DOMAIN outcomes : outcomes[i].err # "none"

\* The Series handed to pd.concat, in the order of itertools.chain.
ResultSeries == SeriesOf(change_values) \o SeriesOf(share_values) \o SeriesOf(cumulative_values)

(***************************************************************************)
(* SpecNotebook: the cells of the notebook in their order.                 *)
(***************************************************************************)
NbInit ==
    /\ heap = [o \in ObjectNames |-> {}]
    /\ nb_iamdf = "loaded"
    /\ iamdf_original = "none"
    /\ nb_before = {}
    /\ registries \in NbRegistries
    /\ change_values = <<>>
    /\ share_values = <<>>
    /\ cumulative_values = <<>>
    /\ all_values = NotASeries
    /\ all_values_df = [err |-> "pending"]
    /\ iamdf_with_meta = [written |-> FALSE]
    /\ nb_pc = "load"
    /\ ShimIdle /\ HookIdle /\ FacIdle /\ AggIdle /\ EvalIdle

\* Lines 77-84: one more row of the file.
ReadRow ==
    /\ nb_pc = "load"
    /\ Cardinality(heap["loaded"]) < MaxNbRows
    /\ \E r \in NbRows :
          /\ \A x \in heap["loaded"] : KeyOf(x) # KeyOf(r)
          /\ heap' = [heap EXCEPT !["loaded"] = @ \cup {r}]
    /\ UNCHANGED <<nb_iamdf, iamdf_original, nb_before, registries, change_values,
                   share_values, cumulative_values, all_values, all_values_df,
                   iamdf_with_meta, nb_pc, hookVars, shimVars, facVars, aggVars, evalVars>>

\* Lines 102-113.
FillAggregates ==
    /\ nb_pc = "load"
    /\ iamdf_original' = nb_iamdf
    /\ nb_before' = heap[nb_iamdf]
    /\ heap' = add_missing_aggregates_objects(heap, nb_iamdf, AggVar, NbComponents)
    /\ nb_iamdf' = "iamdf_out"
    /\ nb_pc' = "change"
    /\ UNCHANGED <<registries, change_values, share_values, cumulative_values, all_values,
                   all_values_df, iamdf_with_meta, hookVars, shimVars, facVars, aggVars,
                   evalVars>>

AfterEvaluation(outcomes, next) == IF AnyRaised(outcomes) THEN "EvaluationError" ELSE next

\* Lines 124-127.
EvaluateChangeRegistry ==
    /\ nb_pc = "change"
    /\ LET outcomes == [i \in DOMAIN registries.change |->
                           get_change_criterion_values(heap[nb_iamdf],
                                                       registries.change[i].criterion)]
       IN /\ change_values' = outcomes
          /\ nb_pc' = AfterEvaluation(outcomes, "share")
    /\ UNCHANGED <<heap, nb_iamdf, iamdf_original, nb_before, registries, share_values,
                   cumulative_values, all_values, all_values_df, iamdf_with_meta,
                   hookVars, shimVars, facVars, aggVars, evalVars>>

\* Lines 132-135.
EvaluateShareRegistry ==
    /\ nb_pc = "share"
    /\ LET outcomes == [i \in DOMAIN registries.share |->
                           get_share_criterion_values(heap[nb_iamdf],
                                                      registries.share[i].criterion)]
       IN /\ share_values' = outcomes
          /\ nb_pc' = AfterEvaluation(outcomes, "cumulative")
    /\ UNCHANGED <<heap, nb_iamdf, iamdf_original, nb_before, registries, change_values,
                   cumulative_values, all_values, all_values_df, iamdf_with_meta,
                   hookVars, shimVars, facVars, aggVars, evalVars>>

\* Lines 140-146.
EvaluateCumulativeRegistry ==
    /\ nb_pc = "cumulative"
    /\ LET outcomes == [i \in DOMAIN registries.cumulative |->
                           get_cumulative_criterion_values(heap[nb_iamdf],
                                                           registries.cumulative[i].criterion)]
       IN /\ cumulative_values' = outcomes
          /\ nb_pc' = AfterEvaluation(outcomes, "concat")
    /\ UNCHANGED <<heap, nb_iamdf, iamdf_original, nb_before, registries, change_values,
                   share_values, all_values, all_values_df, iamdf_with_meta,
                   hookVars, shimVars, facVars, aggVars, evalVars>>

\* Lines 161-167.
Concatenate ==
    /\ nb_pc = "concat"
    /\ all_values' = pd_concat(ResultSeries)
    /\ nb_pc' = "assert"
    /\ UNCHANGED <<heap, nb_iamdf, iamdf_original, nb_before, registries, change_values,
                   share_values, cumulative_values, all_values_df, iamdf_with_meta,
                   hookVars, shimVars, facVars, aggVars, evalVars>>

\* Lines 176-182: a failing assert ends the run.
CheckConcatenation ==
    /\ nb_pc = "assert"
    /\ nb_pc' = IF assertions_pass(ResultSeries, all_values) THEN "reshape"
                ELSE "AssertionError"
    /\ UNCHANGED <<heap, nb_iamdf, iamdf_original, nb_before, registries, change_values,
                   share_values, cumulative_values, all_values, all_values_df,
                   iamdf_with_meta, hookVars, shimVars, facVars, aggVars, evalVars>>

\* Line 191: an exception of unstack ends the run.
Reshape ==
    /\ nb_pc = "reshape"
    /\ all_values_df' = reshape(all_values)
    /\ nb_pc' = IF reshape(all_values).err = "none" THEN "export" ELSE "ValueError"
    /\ UNCHANGED <<heap, nb_iamdf, iamdf_original, nb_before, registries, change_values,
                   share_values, cumulative_values, all_values, iamdf_with_meta,
                   hookVars, shimVars, facVars, aggVars, evalVars>>

\* Lines 223-229: a copy of the object bound to iamdf_original, with the
\* table as its meta, is written out.
Export ==
    /\ nb_pc = "export"
    /\ iamdf_with_meta' = [written |-> TRUE, data |-> heap[iamdf_original],
                           meta |-> all_values_df]
    /\ nb_pc' = "done"
    /\ UNCHANGED <<heap, nb_iamdf, iamdf_original, nb_before, registries, change_values,
                   share_values, cumulative_values, all_values, all_values_df,
                   hookVars, shimVars, facVars, aggVars, evalVars>>

NextNotebook ==
    \/ ReadRow
    \/ FillAggregates
    \/ EvaluateChangeRegistry
    \/ EvaluateShareRegistry
    \/ EvaluateCumulativeRegistry
    \/ Concatenate
    \/ CheckConcatenation
    \/ Reshape
    \/ Export

SpecNotebook == NbInit /\ [][NextNotebook]_vars

(***************************************************************************)
(* Properties of the pipeline (SpecNotebook).                              *)
(***************************************************************************)
ResultRows == ConcatRows(ResultSeries)

Key4(idx) == <<idx["model"], idx["scenario"], idx["region"], idx["variable"]>>

\* No two entries of the results have the same (model, scenario, region,
\* criterion name).
KeysDisjoint ==
    \A i, j \in DOMAIN ResultRows :
        Key4(ResultRows[i].idx) = Key4(ResultRows[j].idx) => i = j

\* No two entries of the results have the same index, the unit included.
IndexDisjoint ==
    \A i, j \in DOMAIN ResultRows : ResultRows[i].idx = ResultRows[j].idx => i = j

AssertionsPassed == nb_pc \in {"reshape", "export", "done", "ValueError"}

AssertionsRun == AssertionsPassed \/ nb_pc = "AssertionError"

NothingReshapedOrExported ==
    /\ all_values_df = [err |-> "pending"]
    /\ iamdf_with_meta = [written |-> FALSE]

ConcatenationSound ==
    /\ Len(all_values.rows) = SumLen(ResultSeries)
    /\ is_unique(all_values)

\* C14: once the assertions of the concatenation step have run: if no two
\* entries of the results share a (model, scenario, region, criterion name)
\* key, the concatenated Series has the summed length and a unique index and
\* the run goes on; if two entries share such a key, the run ends with an
\* AssertionError before anything is reshaped or exported.
C14_AssertionOnSharedKey ==
    AssertionsRun =>
        /\ KeysDisjoint => (AssertionsPassed /\ ConcatenationSound)
        /\ ~KeysDisjoint => (nb_pc = "AssertionError" /\ NothingReshapedOrExported)

\* C14 as the code has it: the length is always the sum; the assertions pass
\* exactly when no two entries share the whole index (model, scenario, region,
\* criterion name, unit); a failed assertion ends the run before reshaping;
\* entries that share the key but not the unit pass the assertions and make
\* the reshaping step raise, so that nothing is exported either.
C14_AssertionOnSharedIndex ==
    AssertionsRun =>
        /\ Len(all_values.rows) = SumLen(ResultSeries)
        /\ AssertionsPassed <=> IndexDisjoint
        /\ AssertionsPassed => is_unique(all_values)
        /\ KeysDisjoint => AssertionsPassed
        /\ nb_pc = "AssertionError" => NothingReshapedOrExported
        /\ (AssertionsPassed /\ ~KeysDisjoint) =>
              /\ nb_pc \in {"reshape", "ValueError"}
              /\ iamdf_with_meta = [written |-> FALSE]

\* Two results share a key and differ in the unit: the assertions have
\* passed and unstack has raised.
C14_Witness ==
    /\ nb_pc = "ValueError"
    /\ ~KeysDisjoint
    /\ IndexDisjoint

\* Two results share the whole index: the assertion has ended the run.
C14_WitnessAssertion == nb_pc = "AssertionError" /\ ~IndexDisjoint

AllEntries == registries.change \o registries.share \o registries.cumulative

KeysUniquePerRegistry ==
    \A reg \in {registries.change, registries.share, registries.cumulative} :
        \A i, j \in DOMAIN reg : reg[i].key = reg[j].key => i = j

NamesDistinct ==
    \A i, j \in DOMAIN AllEntries :
        AllEntries[i].criterion.criterion_name = AllEntries[j].criterion.criterion_name
            => i = j

\* C15: with registries whose keys are unique, the assertions of the
\* concatenation step hold: the index of the concatenated Series is unique
\* and its length is the sum of the lengths.
C15_UniqueKeysSuffice ==
    (AssertionsRun /\ KeysUniquePerRegistry) => (AssertionsPassed /\ ConcatenationSound)

\* C15 as the code has it: the assertions hold when the criteria of the
\* registries have pairwise distinct names (the data reporting each variable
\* in one unit).
C15_DistinctNamesSuffice ==
    (AssertionsRun /\ NamesDistinct) => (AssertionsPassed /\ ConcatenationSound)

\* Registries with distinct names, all three kinds with a result.
C15_Witness ==
    /\ nb_pc = "done"
    /\ NamesDistinct
    /\ \A i \in DOMAIN ResultSeries : ResultSeries[i].rows # <<>>

\* Unique keys, one name under two keys: the assertion has failed.
C15_WitnessSameName ==
    /\ nb_pc = "AssertionError"
    /\ KeysUniquePerRegistry
    /\ ~NamesDistinct

Reshaped == nb_pc \in {"export", "done"}

PairsWithResult ==
    {<<all_values.rows[i].idx["model"], all_values.rows[i].idx["scenario"]>> :
        i \in DOMAIN all_values.rows}

NamesWithResult == {all_values.rows[i].idx["variable"] : i \in DOMAIN all_values.rows}

TriplesWithResult ==
    {[l \in {"model", "scenario", "region"} |-> all_values.rows[i].idx[l]] :
        i \in DOMAIN all_values.rows}

\* C16: the table has the index levels (model, scenario), one row per (model,
\* scenario) pair and one column per criterion.
C16_OneRowPerPair ==
    Reshaped =>
        /\ all_values_df.levels = <<"model", "scenario">>
        /\ \A p \in PairsWithResult :
              Cardinality({k \in all_values_df.index :
                              <<k["model"], k["scenario"]>> = p}) = 1
        /\ all_values_df.columns = NamesWithResult

\* C16 as the code has it: the reshaping step removes the unit level only;
\* the table has the index levels (model, scenario, region), one row per
\* (model, scenario, region) that has a result, one column per criterion name
\* that has a result, and in each cell the value of that row for that
\* criterion or a missing value.
C16_OneRowPerPairAndRegion ==
    Reshaped =>
        /\ all_values_df.levels = <<"model", "scenario", "region">>
        /\ all_values_df.index = TriplesWithResult
        /\ all_values_df.columns = NamesWithResult
        /\ \A i \in DOMAIN all_values.rows :
              LET idx == all_values.rows[i].idx IN
              all_values_df.cell[<<[l \in {"model", "scenario", "region"} |-> idx[l]],
                                   idx["variable"]>>] = all_values.rows[i].value
        /\ \A rc \in all_values_df.index \X all_values_df.columns :
              all_values_df.cell[rc] = NaN
                  <=> ~\E i \in DOMAIN all_values.rows :
                         /\ \A l \in {"model", "scenario", "region"} :
                               all_values.rows[i].idx[l] = rc[1][l]
                         /\ all_values.rows[i].idx["variable"] = rc[2]

\* The table has two rows for one (model, scenario) pair.
C16_Witness ==
    /\ Reshaped
    /\ \E k1, k2 \in all_values_df.index :
          /\ k1["model"] = k2["model"] /\ k1["scenario"] = k2["scenario"]
          /\ k1["region"] # k2["region"]

FillerHasRun == nb_pc # "load"

ComputedRows == heap[nb_iamdf] \ nb_before

\* C17: after add_missing_aggregates has returned, the object that was
\* passed in (the one iamdf_original is bound to) has the rows it had when
\* the call was made, and the exported data are these rows: none of the
\* computed aggregate rows is among them.
C17_InputNotModified ==
    FillerHasRun =>
        /\ heap[iamdf_original] = nb_before
        /\ heap["loaded"] = nb_before
        /\ iamdf_with_meta.written =>
              /\ iamdf_with_meta.data = nb_before
              /\ iamdf_with_meta.data \cap ComputedRows = {}

\* The returned dataset has a computed aggregate row, the exported one has
\* the reported rows only.
C17_Witness ==
    /\ nb_pc = "done"
    /\ \E r \in ComputedRows : r.variable = AggVar
    /\ \E r \in iamdf_with_meta.data : r.variable = Hydro

=============================================================================
